---- MODULE Spec2Model ----
(***************************************************************************)
(* Battleship rules engine (Board, Player, Game, Rules) of                 *)
(* src/unnamed/part_001, lines 500-1160, as a state machine.               *)
(*                                                                         *)
(* Two specifications share the variables:                                 *)
(*   GameSpec  drives BattleShipGame.settleShip / attack directly,         *)
(*   Spec      drives BattleShipRules.init / apply with abstract events.   *)
(***************************************************************************)
EXTENDS Integers, Sequences, FiniteSets, TLC

(***************************************************************************)
(* Bounds of the model.                                                    *)
(***************************************************************************)
\* side of the square board (BattleShipSettings.boardSize is 10 in the source)
BoardSize == 3
\* GameSpec: at most this many state-changing Game calls (ships + attacked cells)
\* PlayerSpec: at most this many ships on the roster
MaxOps == 2
\* PlayerSpec: at most this many parts damaged over the whole roster
MaxHits == 3

\* BattleShipSettings: the ship types of a configuration and the largest size
MaxTypes == 3

MaxSize == 5

\* PresenterSpec: at most this many callbacks are chained on execution
MaxChain == 4

\* frames of the ChangePlayer camera animation (60 in the source)
AnimSteps == 2

(***************************************************************************)
(* Vocabulary.                                                             *)
(***************************************************************************)
\* enum PLAYER
PLAYER == {"P1", "P2"}

Other(p) == IF p = "P1" THEN "P2" ELSE "P1"

\* const enum ORIENTATION
ORIENTATION == {"HORIZONTAL", "VERTICAL"}

\* type ShipSize = 1 | 3 | 5, cut to the sizes that fit the modelled board
ShipSize == {1, 3}

\* the JavaScript value `undefined` where a ship size is expected
\* (shipSizeSequence[i] with i = shipSizeSequence.length); every operator
\* that reads a size treats this value apart, as the arithmetic on
\* undefined (NaN) does: all comparisons with it are false.
Undefined == 0 - 1

\* the JavaScript value `null` where a BoardPosition or an attack report is
\* expected; positions and reports are pairs, so the empty tuple is distinct
Null == << >>

\* coordinates fed to the operations: the first two and the last one of the
\* grid, and one step outside it on either side
Coord == {0 - 1, 0, 1, BoardSize - 1, BoardSize}

Positions == Coord \X Coord

\* positions carried by MOVE events: cells of the grid, a cell in the
\* column just past the last one, a cell in the row before the first one
MovePositions ==
    {<<0, 1>>, <<1, 1>>, <<1, BoardSize>>, <<0 - 1, 0>>}

\* const enum BSMoveLoc
BSMoveLoc == {"SHIP_GRID", "PIN_GRID"}

\* BattleShipSettings.shipSizeByType, cut to the sizes that fit the board
shipSizeByType == <<1, 3>>

\* values of BattleShipSettings.shipCountByType the games are played with
ShipCounts == {<<0, 0>>, <<1, 0>>, <<2, 0>>, <<1, 2>>, <<2, 1>>}

Grid == (0 .. BoardSize - 1) \X (0 .. BoardSize - 1)

(***************************************************************************)
(* ShipPiece and board cells.                                              *)
(***************************************************************************)
ShipPiece(idx, size, orientation, position) ==
    [id |-> idx, size |-> size, orientation |-> orientation,
     position |-> position,
     damaged |-> [i \in 0 .. size - 1 |-> FALSE],
     damage |-> 0]

WaterBoardCell == [cellKind |-> "WATER", attacked |-> FALSE]

ShipBoardCell(shipId, shipPart) ==
    [cellKind |-> "SHIP", shipId |-> shipId, shipPart |-> shipPart,
     attacked |-> FALSE]

initBoard == [c \in Grid |-> WaterBoardCell]

(***************************************************************************)
(* BattleShipBoard.                                                        *)
(***************************************************************************)
\* (ship.size - 1)/2; sizes are odd (BattleShipSettings rejects even ones)
Half(size) == (size - 1) \div 2

\* the value written into a settled cell as its shipPart: the loop variable
\* `pos`, the cell's coordinate along the ship's axis
CellPart(pos, first) == pos

\* the anchor test of settleShip
AnchorOut(x, y) == x < 0 \/ x >= BoardSize \/ y < 0 \/ y > BoardSize

\* the run of coordinates along the ship's axis; with an undefined size the
\* loop bounds are NaN and the loops do not execute
Run(anchor, size) ==
    IF size = Undefined THEN {}
    ELSE (anchor - Half(size)) .. (anchor + Half(size))

\* the extent test; with an undefined size both comparisons are false
ExtentOut(anchor, size) ==
    /\ size # Undefined
    /\ \/ anchor - Half(size) < 0
       \/ anchor + Half(size) >= BoardSize

\* the overlap loop of settleShip
OverlapsMutant(b, cells) == FALSE

Overlaps(b, cells) == \E c \in cells : b[c].cellKind = "SHIP"

\* settleShip(ship): [err, board]
BoardSettleShip(b, ship) ==
    LET x == ship.position[1]
        y == ship.position[2]
        horizontal == ship.orientation = "HORIZONTAL"
        anchor == IF horizontal THEN y ELSE x
        run == Run(anchor, ship.size)
        first == anchor - Half(ship.size)
        cells == IF horizontal THEN {<<x, pos>> : pos \in run}
                 ELSE {<<pos, y>> : pos \in run}
        axis(c) == IF horizontal THEN c[2] ELSE c[1]
    IN  IF AnchorOut(x, y)
        THEN [err |-> "PositionOutOfBounds", board |-> b]
        ELSE IF ExtentOut(anchor, ship.size)
        THEN [err |-> "SizeOutOfBounds", board |-> b]
        ELSE IF \E c \in cells : c \notin Grid
        \* this.board[pos][y] is undefined: reading .cellKind throws TypeError
        THEN [err |-> "TypeError", board |-> b]
        ELSE IF Overlaps(b, cells)
        THEN [err |-> "Overlap", board |-> b]
        ELSE [err |-> "none",
              board |-> [c \in Grid |->
                           IF c \in cells
                           THEN ShipBoardCell(ship.id, CellPart(axis(c), first))
                           ELSE b[c]]]

\* the already-attacked test of attack
IsAttackedMutant(cell) == FALSE

IsAttacked(cell) == cell.attacked

\* the cell after `cell.attacked = true`
AttackedCellMutant(cell) == [cellKind |-> "WATER", attacked |-> TRUE]

AttackedCell(cell) == [cell EXCEPT !.attacked = TRUE]

\* attack(target): [err, value, board]
BoardAttack(b, target) ==
    LET x == target[1]
        y == target[2]
    IN  IF x < 0 \/ y < 0 \/ x >= BoardSize \/ y >= BoardSize
        THEN [err |-> "AttackOutOfBounds", value |-> Null, board |-> b]
        ELSE IF IsAttacked(b[target])
        THEN [err |-> "AlreadyAttacked", value |-> Null, board |-> b]
        ELSE [err |-> "none",
              value |-> IF b[target].cellKind = "SHIP"
                        THEN <<b[target].shipId, b[target].shipPart>>
                        ELSE Null,
              board |-> [b EXCEPT ![target] = AttackedCell(@)]]

(***************************************************************************)
(* BattleShipPlayer: [ships, shipBoard, shipCount]; the pinBoard is the    *)
(* other player's shipBoard (see BattleShipGame's constructor).            *)
(***************************************************************************)
initPlayer == [ships |-> << >>, shipBoard |-> initBoard, shipCount |-> 0]

\* settleShip(size, orientation, position): [err, player]
PlayerSettleShipMutant(pl, size, orientation, position) ==
    LET ship == ShipPiece(pl.shipCount, size, orientation, position)
        r == BoardSettleShip(pl.shipBoard, ship)
    IN  [err |-> r.err,
         player |-> [ships |-> Append(pl.ships, ship),
                     shipBoard |-> r.board,
                     shipCount |-> IF r.err = "none" THEN pl.shipCount + 1
                                   ELSE pl.shipCount]]

PlayerSettleShip(pl, size, orientation, position) ==
    LET ship == ShipPiece(pl.shipCount, size, orientation, position)
        r == BoardSettleShip(pl.shipBoard, ship)
    IN  IF r.err # "none"
        THEN [err |-> r.err, player |-> pl]
        ELSE [err |-> "none",
              player |-> [ships |-> Append(pl.ships, ship),
                          shipBoard |-> r.board,
                          shipCount |-> pl.shipCount + 1]]

\* the test `part < 0 || part >= ship.size` of receiveDamage; with an
\* undefined size the second comparison is false
PartOutMutant(part, ship) == ship.size # Undefined /\ part > ship.size

PartOut(part, ship) ==
    \/ part < 0
    \/ ship.size # Undefined /\ part >= ship.size

\* the test `ship.damage === ship.size` of receiveDamage
ShipDestroyedMutant(ship) == ship.damage + 1 = ship.size

ShipDestroyed(ship) == ship.damage = ship.size

\* receiveDamage(shipId, part): [err, value, player]; ships[shipId] is the
\* (shipId+1)-th element of the sequence
PlayerReceiveDamage(pl, shipId, part) ==
    IF shipId < 0 \/ shipId >= Len(pl.ships)
    THEN [err |-> "InvalidShipId", value |-> FALSE, player |-> pl]
    ELSE LET ship == pl.ships[shipId + 1]
         IN  IF PartOut(part, ship)
             THEN [err |-> "InvalidPart", value |-> FALSE, player |-> pl]
             ELSE IF part \in DOMAIN ship.damaged /\ ship.damaged[part]
             THEN [err |-> "AlreadyDamaged", value |-> FALSE, player |-> pl]
             ELSE LET damaged == IF part \in DOMAIN ship.damaged
                                 THEN [ship.damaged EXCEPT ![part] = TRUE]
                                 ELSE (part :> TRUE) @@ ship.damaged
                      hit == [ship EXCEPT !.damaged = damaged,
                                          !.damage = ship.damage + 1]
                      destroyed == ShipDestroyed(hit)
                  IN  [err |-> "none", value |-> destroyed,
                       player |-> [pl EXCEPT
                           !.ships[shipId + 1] = hit,
                           !.shipCount = IF destroyed THEN @ - 1 ELSE @]]

(***************************************************************************)
(* BattleShipGame: a function from PLAYER to the player's record.          *)
(***************************************************************************)
initGame == [p \in PLAYER |-> initPlayer]

\* settleShip(player, shipSize, shipOrientation, shipPosition): [err, game]
GameSettleShip(g, player, size, orientation, position) ==
    LET r == PlayerSettleShip(g[player], size, orientation, position)
    IN  [err |-> r.err, game |-> [g EXCEPT ![player] = r.player]]

\* the player attack(attackerId, ...) takes as `attacked`
DefenderMutant(attackerId) == attackerId

Defender(attackerId) == Other(attackerId)

\* the value attack returns after a hit
AttackResultMutant(destroyed, shipCount) ==
    shipCount + (IF destroyed THEN 1 ELSE 0) = 0

AttackResultEarlyMutant(destroyed, shipCount) == destroyed

AttackResult(destroyed, shipCount) == shipCount = 0

\* attack(attackerId, target): [err, value, game]
GameAttack(g, attackerId, target) ==
    LET attacked == Defender(attackerId)
        a == BoardAttack(g[attacked].shipBoard, target)
        g1 == [g EXCEPT ![attacked].shipBoard = a.board]
    IN  IF a.err # "none"
        THEN [err |-> a.err, value |-> FALSE, game |-> g]
        ELSE IF a.value = Null
        THEN [err |-> "none", value |-> FALSE, game |-> g1]
        ELSE LET d == PlayerReceiveDamage(g1[attacked], a.value[1], a.value[2])
                 g2 == [g1 EXCEPT ![attacked] = d.player]
             IN  IF d.err # "none"
                 \* the cell stays marked attacked: nothing undoes it
                 THEN [err |-> d.err, value |-> FALSE, game |-> g1]
                 ELSE [err |-> "none",
                       value |-> AttackResult(d.value, g2[attacked].shipCount),
                       game |-> g2]

(***************************************************************************)
(* BattleShipSettings.buildShipSizeSequence.                               *)
(***************************************************************************)
Repeat(x, n) == [i \in 1 .. n |-> x]

RECURSIVE SizesFrom(_, _)
SizesFrom(counts, shipType) ==
    IF shipType > Len(counts) THEN << >>
    ELSE Repeat(shipSizeByType[shipType], counts[shipType])
         \o SizesFrom(counts, shipType + 1)

buildShipSizeSequence(shipCountByType) == SizesFrom(shipCountByType, 1)

(***************************************************************************)
(* Rule states.                                                            *)
(***************************************************************************)
ShipCraftState(shipSizeSequence, player) ==
    [kind |-> "SHIP CRAFTING", player |-> player, selected |-> FALSE,
     shipSizeSequence |-> shipSizeSequence, shipSizeIterator |-> 0,
     orientation |-> "HORIZONTAL", pos |-> Null]

\* the value `null` where nextShipSize returns no size (no ship has size 0)
NoSize == 0

\* ShipCraftState.nextShipSize: [size, state]; size is NoSize at the end
nextShipSize(st) ==
    IF st.shipSizeIterator = Len(st.shipSizeSequence)
    THEN [size |-> NoSize, state |-> st]
    ELSE [size |-> st.shipSizeSequence[st.shipSizeIterator + 1],
          state |-> [st EXCEPT !.shipSizeIterator = @ + 1]]

\* ShipCraftState.reset
CraftResetMutant(st) ==
    [st EXCEPT !.selected = FALSE, !.shipSizeIterator = 0, !.pos = Null]

CraftReset(st) ==
    [st EXCEPT !.selected = FALSE, !.shipSizeIterator = 0,
               !.orientation = "HORIZONTAL", !.pos = Null]

BattleStateBackMutant ==
    [kind |-> "SHIP CRAFTING", player |-> "P1", selected |-> FALSE,
     shipSizeSequence |-> << >>, shipSizeIterator |-> 0,
     orientation |-> "HORIZONTAL", pos |-> Null]

BattleStateMutant ==
    [kind |-> "BATTLE", player |-> "P1", selected |-> TRUE, pos |-> Null]

BattleState ==
    [kind |-> "BATTLE", player |-> "P1", selected |-> FALSE, pos |-> Null]

\* BattleState.reset
BattleReset(st) == [st EXCEPT !.selected = FALSE, !.pos = Null]

GameOverStateMutant(winningPlayer) ==
    [kind |-> "GAME OVER", player |-> Other(winningPlayer)]

GameOverState(winningPlayer) == [kind |-> "GAME OVER", player |-> winningPlayer]

(***************************************************************************)
(* Commands and controls.                                                  *)
(***************************************************************************)
Cmd(kind) == [kind |-> kind]

MakeShipCmd(size) == [kind |-> "MAKE SHIP", size |-> size]

MoveShipCmd(to) == [kind |-> "MOVE SHIP", to |-> to]

MovePinCmd(to) == [kind |-> "MOVE PIN", to |-> to]

\* ErrorCmd; log keeps the message of the failure it reports
ErrorCmdMutant(log) == [kind |-> "SETTLE SHIP", log |-> log]

ErrorCmd(log) == [kind |-> "ERROR", log |-> log]

(***************************************************************************)
(* BattleShipRules.  Every process* operator returns                       *)
(* [cmds, state, game, call]: the commands, the new rule state, the new    *)
(* game and the record of the call made on the game (NoCall if none).      *)
(***************************************************************************)
NoCall == [op |-> "none"]

SettleCall(player, size, orientation, position, r, g) ==
    [op |-> "settleShip", player |-> player, size |-> size,
     orientation |-> orientation, position |-> position,
     err |-> r.err, changed |-> r.game # g]

AttackCall(attackerId, target, r, g) ==
    [op |-> "attack", player |-> attackerId, position |-> target,
     err |-> r.err, value |-> r.value, changed |-> r.game # g]

DamageCall(player, shipId, part, d, pl) ==
    [op |-> "receiveDamage", player |-> player, shipId |-> shipId,
     part |-> part, err |-> d.err, value |-> d.value,
     changed |-> d.player # pl]

\* initView
initView(st) ==
    LET n == nextShipSize(st)
    IN  [cmds |-> IF n.size # NoSize THEN <<MakeShipCmd(n.size)>>
                  ELSE <<ErrorCmd("Player 1 has no ships.")>>,
         state |-> n.state]

\* initInteraction
initInteractionMutant == <<Cmd("ENABLE_SELECTION")>>

initInteraction ==
    <<Cmd("ENABLE_SELECTION"), Cmd("ENABLE_UNSELECTION"),
      Cmd("ENABLE_ROTATION"), Cmd("ENABLE_MOVE")>>

\* generateControls(beforeState), read against the state after the event
generateControlsMutant(beforeState, st) ==
    IF st.kind = "BATTLE" THEN <<Cmd("DISABLE_ROTATION")>>
    ELSE IF st.kind = "GAME OVER"
    THEN <<Cmd("DISABLE_SELECTION"), Cmd("DISABLE_UNSELECTION"),
           Cmd("DISABLE_MOVE")>>
    ELSE << >>

generateControlsStickyMutant(beforeState, st) ==
    IF /\ beforeState.kind = "SHIP CRAFTING"
       /\ beforeState.player = "P2"
       /\ st.player = "P1"
    THEN <<Cmd("DISABLE_ROTATION")>>
    ELSE IF st.kind = "GAME OVER"
    THEN <<Cmd("DISABLE_SELECTION"), Cmd("DISABLE_UNSELECTION"),
           Cmd("DISABLE_MOVE")>>
    ELSE << >>

generateControls(beforeState, st) ==
    IF /\ beforeState.kind = "SHIP CRAFTING"
       /\ beforeState.player = "P2"
       /\ st.player = "P1"
    THEN <<Cmd("DISABLE_ROTATION")>>
    ELSE IF beforeState.kind = "BATTLE" /\ st.kind = "GAME OVER"
    THEN <<Cmd("DISABLE_SELECTION"), Cmd("DISABLE_UNSELECTION"),
           Cmd("DISABLE_MOVE")>>
    ELSE << >>

processSelectMutant(st, g) ==
    IF st.kind \in {"SHIP CRAFTING", "BATTLE"}
    THEN [cmds |-> <<Cmd(IF st.kind = "BATTLE" THEN "SELECT PIN"
                         ELSE "SELECT SHIP")>>,
          state |-> [st EXCEPT !.selected = TRUE], game |-> g, call |-> NoCall]
    ELSE [cmds |-> << >>, state |-> st, game |-> g, call |-> NoCall]

processSelect(st, g) ==
    IF st.kind \in {"SHIP CRAFTING", "BATTLE"} /\ ~st.selected
    THEN [cmds |-> <<Cmd(IF st.kind = "BATTLE" THEN "SELECT PIN"
                         ELSE "SELECT SHIP")>>,
          state |-> [st EXCEPT !.selected = TRUE], game |-> g, call |-> NoCall]
    ELSE [cmds |-> << >>, state |-> st, game |-> g, call |-> NoCall]

\* the ship size a committing UNSELECT hands to Game.settleShip:
\* shipSizeSequence[shipSizeIterator], undefined past the end
SettleSize(st) ==
    IF st.shipSizeIterator < Len(st.shipSizeSequence)
    THEN st.shipSizeSequence[st.shipSizeIterator + 1]
    ELSE Undefined

\* the rule state after an UNSELECT with no position: the piece is laid
\* back down
LayDownMutant(st) == st

LayDown(st) == [st EXCEPT !.selected = FALSE]

\* the rule state a failed settle leaves: selected was cleared before the try
CraftAfterErrorMutant(st) == [st EXCEPT !.selected = FALSE, !.pos = Null]

CraftAfterError(st) == [st EXCEPT !.selected = FALSE]

\* processUnselect, ship crafting, after a successful settle
CraftAdvance(st0) ==
    LET n == nextShipSize(st0)
    IN  IF n.size # NoSize
        THEN [cmds |-> <<Cmd("SETTLE SHIP"), MakeShipCmd(n.size)>>,
              state |-> n.state]
        ELSE IF st0.player = "P1"
        THEN LET st1 == [CraftReset(st0) EXCEPT !.player = "P2"]
                 m == nextShipSize(st1)
             IN  [cmds |-> <<Cmd("SETTLE SHIP"), Cmd("CHANGE PLAYER"),
                             IF m.size = NoSize
                             THEN ErrorCmd("Game settings of Player 2 has no ships.")
                             ELSE MakeShipCmd(m.size)>>,
                  state |-> m.state]
        ELSE [cmds |-> <<Cmd("SETTLE SHIP")>>, state |-> BattleState]

\* the rule state after a successful attack that does not end the match
BattleAfterAttackMutant(st) == [st EXCEPT !.selected = FALSE]

BattleAfterAttack(st) == BattleReset(st)

processUnselect(st, g) ==
    IF st.kind = "SHIP CRAFTING" /\ st.selected
    THEN IF st.pos = Null
         THEN [cmds |-> <<Cmd("SETTLE SHIP")>>,
               state |-> LayDown(st),
               game |-> g, call |-> NoCall]
         ELSE LET shipSize == SettleSize(st)
                  r == GameSettleShip(g, st.player, shipSize, st.orientation, st.pos)
                  call == SettleCall(st.player, shipSize, st.orientation, st.pos, r, g)
              IN  IF r.err # "none"
                  THEN [cmds |-> <<ErrorCmd(r.err)>>, state |-> CraftAfterError(st),
                        game |-> r.game, call |-> call]
                  ELSE LET adv == CraftAdvance([st EXCEPT !.selected = FALSE])
                       IN  [cmds |-> adv.cmds, state |-> adv.state,
                            game |-> r.game, call |-> call]
    ELSE IF st.kind = "BATTLE" /\ st.selected
    THEN IF st.pos = Null
         THEN [cmds |-> <<Cmd("SETTLE PIN")>>,
               state |-> LayDown(st),
               game |-> g, call |-> NoCall]
         ELSE LET r == GameAttack(g, st.player, st.pos)
                  call == AttackCall(st.player, st.pos, r, g)
              IN  IF r.err # "none"
                  THEN [cmds |-> <<ErrorCmd(r.err)>>, state |-> st,
                        game |-> r.game, call |-> call]
                  ELSE IF ~r.value
                  THEN [cmds |-> <<Cmd("SETTLE PIN"), Cmd("CHANGE PLAYER"),
                                   Cmd("MAKE PIN")>>,
                        state |-> BattleAfterAttack(st),
                        game |-> r.game, call |-> call]
                  ELSE [cmds |-> << >>, state |-> GameOverState(st.player),
                        game |-> r.game, call |-> call]
    ELSE [cmds |-> << >>, state |-> st, game |-> g, call |-> NoCall]

processRotateMutant(st, g) ==
    IF st.kind = "SHIP CRAFTING"
    THEN [cmds |-> <<Cmd("ROTATE SHIP")>>,
          state |-> [st EXCEPT !.orientation =
                        IF @ = "VERTICAL" THEN "HORIZONTAL" ELSE "VERTICAL"],
          game |-> g, call |-> NoCall]
    ELSE [cmds |-> << >>, state |-> st, game |-> g, call |-> NoCall]

processRotate(st, g) ==
    IF st.kind = "SHIP CRAFTING" /\ st.selected
    THEN [cmds |-> <<Cmd("ROTATE SHIP")>>,
          state |-> [st EXCEPT !.orientation =
                        IF @ = "VERTICAL" THEN "HORIZONTAL" ELSE "VERTICAL"],
          game |-> g, call |-> NoCall]
    ELSE [cmds |-> << >>, state |-> st, game |-> g, call |-> NoCall]

processMoveMutant(st, g, loc, to) ==
    IF st.kind = "SHIP CRAFTING" /\ st.selected
    THEN [cmds |-> <<MoveShipCmd(to)>>, state |-> [st EXCEPT !.pos = to],
          game |-> g, call |-> NoCall]
    ELSE IF st.kind = "BATTLE" /\ st.selected
    THEN [cmds |-> <<MovePinCmd(to)>>, state |-> [st EXCEPT !.pos = to],
          game |-> g, call |-> NoCall]
    ELSE [cmds |-> << >>, state |-> st, game |-> g, call |-> NoCall]

processMove(st, g, loc, to) ==
    IF st.kind = "SHIP CRAFTING" /\ loc = "SHIP_GRID" /\ st.selected
    THEN [cmds |-> <<MoveShipCmd(to)>>, state |-> [st EXCEPT !.pos = to],
          game |-> g, call |-> NoCall]
    ELSE IF st.kind = "BATTLE" /\ loc = "PIN_GRID" /\ st.selected
    THEN [cmds |-> <<MovePinCmd(to)>>, state |-> [st EXCEPT !.pos = to],
          game |-> g, call |-> NoCall]
    ELSE [cmds |-> << >>, state |-> st, game |-> g, call |-> NoCall]

WithControls(st, r) ==
    [cmds |-> r.cmds, controls |-> generateControls(st, r.state),
     state |-> r.state, game |-> r.game, call |-> r.call]

\* apply(event, game): [cmds, controls, state, game, call]
RulesApply(st, g, ev) ==
    WithControls(st,
        IF ev.kind = "SELECT" THEN processSelect(st, g)
        ELSE IF ev.kind = "UNSELECT" THEN processUnselect(st, g)
        ELSE IF ev.kind = "ROTATE" THEN processRotate(st, g)
        ELSE processMove(st, g, ev.loc, ev.to))

(***************************************************************************)
(* State.                                                                  *)
(***************************************************************************)
VARIABLES
    settings,   \* BattleShipSettings.shipCountByType of this game
    game,       \* the BattleShipGame
    gameState,  \* BattleShipRules.gameState
    inited,     \* BattleShip.init has run
    cmds,       \* the commands returned by the last init/apply
    controls,   \* the controls returned by the last init/apply
    ret,        \* the call the last operation made on the Game, and its outcome
    shown,      \* size carried by the latest MakeShip command (Null: none yet)
    script,     \* progress of the micro-game scenario (see MicroStep)
    unmoved,    \* no MOVE event has arrived since the latest MakeShip command
    pinMade,    \* a MakePin command has been emitted
    handlers,   \* which of the BattleShipSensor's four handlers are set
    sensor,     \* BattleShipSensor.selecting and .lastMoveEvent
    presenter   \* the BattleShipPresenter's execution chain and its scene

vars == <<settings, game, gameState, inited, cmds, controls, ret, shown,
          script, unmoved, pinMade, handlers, sensor, presenter>>

ScriptStart == [n |-> 0, b |-> Null]

\* BattleShipSensor's handler fields, all undefined at construction
NoHandlers ==
    [select |-> FALSE, unselect |-> FALSE, move |-> FALSE, rotate |-> FALSE]

\* BattleShipSensor's private fields at construction
SensorStart == [selecting |-> FALSE, lastMoveEvent |-> Null]

\* BattleShipPresenter at construction, over a scene with no ship and no
\* pin: log holds the callbacks chained on execution, in the order chained
PresenterStart ==
    [log |-> << >>, ships |-> FALSE, pins |-> FALSE, steps |-> 0]

Init ==
    /\ settings \in ShipCounts
    /\ game = initGame
    /\ gameState = ShipCraftState(buildShipSizeSequence(settings), "P1")
    /\ inited = FALSE
    /\ cmds = << >>
    /\ controls = << >>
    /\ ret = NoCall
    /\ shown = Null
    /\ script = ScriptStart
    /\ unmoved = FALSE
    /\ pinMade = FALSE
    /\ handlers = NoHandlers
    /\ sensor = SensorStart
    /\ presenter = PresenterStart

(***************************************************************************)
(* Observers of the command stream and of the event stream.                *)
(***************************************************************************)
\* cs holds a command of this kind
HasKind(cs, kind) == \E i \in 1 .. Len(cs) : cs[i].kind = kind

RECURSIVE updateSensorMutant(_, _)
updateSensorMutant(h, cs) ==
    IF cs = << >> THEN h
    ELSE LET k == Head(cs).kind
             n == IF k = "ENABLE_SELECTION" THEN [h EXCEPT !.select = TRUE]
                  ELSE IF k = "ENABLE_UNSELECTION"
                  THEN [h EXCEPT !.unselect = TRUE]
                  ELSE IF k = "ENABLE_ROTATION" THEN [h EXCEPT !.rotate = TRUE]
                  ELSE IF k = "ENABLE_MOVE" THEN [h EXCEPT !.move = TRUE]
                  ELSE h
         IN  updateSensorMutant(n, Tail(cs))

RECURSIVE updateSensor(_, _)
\* BattleShip.updateSensor: the handlers after the controls cs, in order
updateSensor(h, cs) ==
    IF cs = << >> THEN h
    ELSE LET k == Head(cs).kind
             n == IF k = "ENABLE_SELECTION" THEN [h EXCEPT !.select = TRUE]
                  ELSE IF k = "DISABLE_SELECTION"
                  THEN [h EXCEPT !.select = FALSE]
                  ELSE IF k = "ENABLE_UNSELECTION"
                  THEN [h EXCEPT !.unselect = TRUE]
                  ELSE IF k = "DISABLE_UNSELECTION"
                  THEN [h EXCEPT !.unselect = FALSE]
                  ELSE IF k = "ENABLE_ROTATION" THEN [h EXCEPT !.rotate = TRUE]
                  ELSE IF k = "DISABLE_ROTATION"
                  THEN [h EXCEPT !.rotate = FALSE]
                  ELSE IF k = "ENABLE_MOVE" THEN [h EXCEPT !.move = TRUE]
                  ELSE IF k = "DISABLE_MOVE" THEN [h EXCEPT !.move = FALSE]
                  ELSE h
         IN  updateSensor(n, Tail(cs))

\* the size of the last MakeShip command of cs, or old if cs has none
RECURSIVE LastMade(_, _)
LastMade(cs, old) ==
    IF cs = << >> THEN old
    ELSE LastMade(Tail(cs), IF Head(cs).kind = "MAKE SHIP"
                            THEN <<Head(cs).size>> ELSE old)

\* The micro-game: SELECT, MOVE(ship grid, a), UNSELECT by P1, the same with
\* b by P2, then SELECT, MOVE(pin grid, b), UNSELECT.  script.n counts the
\* events of a run that has followed it so far; any other event ends the
\* count (n = -1).
MicroKinds ==
    <<"SELECT", "MOVE", "UNSELECT", "SELECT", "MOVE", "UNSELECT",
      "SELECT", "MOVE", "UNSELECT">>

MicroStep(sc, ev) ==
    LET k == sc.n + 1
    IN  IF sc.n < 0 \/ k > Len(MicroKinds) \/ ev.kind # MicroKinds[k]
        THEN [n |-> 0 - 1, b |-> Null]
        ELSE IF ev.kind # "MOVE" THEN [sc EXCEPT !.n = k]
        ELSE IF k = 2 /\ ev.loc = "SHIP_GRID" /\ ev.to \in Grid
        THEN [sc EXCEPT !.n = k]
        ELSE IF k = 5 /\ ev.loc = "SHIP_GRID" /\ ev.to \in Grid
        THEN [n |-> k, b |-> ev.to]
        ELSE IF k = 8 /\ ev.loc = "PIN_GRID" /\ ev.to = sc.b
        THEN [sc EXCEPT !.n = k]
        ELSE [n |-> 0 - 1, b |-> Null]

(***************************************************************************)
(* Spec: the game played through BattleShipRules.                          *)
(***************************************************************************)
\* BattleShip.init: Rules.init(), then the controls it returned are applied;
\* the commands go to the presenter, whose chain PresenterSpec runs
RulesInit ==
    /\ ~inited
    /\ LET v == initView(gameState)
       IN  /\ gameState' = v.state
           /\ cmds' = v.cmds
           /\ shown' = LastMade(v.cmds, shown)
           /\ unmoved' = (HasKind(v.cmds, "MAKE SHIP") \/ unmoved)
    /\ controls' = initInteraction
    /\ handlers' = updateSensor(handlers, initInteraction)
    /\ inited' = TRUE
    /\ UNCHANGED <<settings, game, ret, script, pinMade, sensor, presenter>>

\* BattleShip.update(event): Rules.apply(event, game)
Apply(ev) ==
    /\ \E r \in {RulesApply(gameState, game, ev)} :
           /\ gameState' = r.state
           /\ game' = r.game
           /\ cmds' = r.cmds
           /\ controls' = r.controls
           /\ ret' = r.call
           /\ shown' = LastMade(r.cmds, shown)
           /\ unmoved' = IF HasKind(r.cmds, "MAKE SHIP") THEN TRUE
                         ELSE IF ev.kind = "MOVE" THEN FALSE
                         ELSE unmoved
           /\ pinMade' = (pinMade \/ HasKind(r.cmds, "MAKE PIN"))
           /\ handlers' = updateSensor(handlers, r.controls)
    /\ script' = MicroStep(script, ev)
    /\ UNCHANGED <<settings, inited>>

ApplySelect ==
    /\ inited
    /\ Apply([kind |-> "SELECT"])
    /\ UNCHANGED <<sensor, presenter>>

ApplyUnselect ==
    /\ inited
    /\ Apply([kind |-> "UNSELECT"])
    /\ UNCHANGED <<sensor, presenter>>

ApplyRotate ==
    /\ inited
    /\ Apply([kind |-> "ROTATE"])
    /\ UNCHANGED <<sensor, presenter>>

ApplyMove ==
    /\ inited
    /\ \E to \in MovePositions, loc \in BSMoveLoc :
          Apply([kind |-> "MOVE", to |-> to, loc |-> loc])
    /\ UNCHANGED <<sensor, presenter>>

Next ==
    \/ RulesInit
    \/ ApplySelect
    \/ ApplyUnselect
    \/ ApplyRotate
    \/ ApplyMove

Spec == Init /\ [][Next]_vars

(***************************************************************************)
(* RulesSpec: BattleShipRules as a unit.  apply(event, game) takes the     *)
(* game as an argument: besides the games of Spec, the rules in Battle are *)
(* handed games whose ships Game.settleShip was given sizes of ShipSize.   *)
(***************************************************************************)
\* the arguments of the Game.settleShip calls that build P2's side
BattleFleets ==
    {<<[size |-> 1, orientation |-> "VERTICAL", position |-> <<0, 1>>]>>,
     <<[size |-> 1, orientation |-> "VERTICAL", position |-> <<0, 1>>],
       [size |-> 1, orientation |-> "HORIZONTAL", position |-> <<1, 1>>]>>,
     <<[size |-> 3, orientation |-> "VERTICAL", position |-> <<1, 1>>]>>}

RECURSIVE SettleAll(_, _, _)
\* the game after settleShip(player, ...) for each entry of fleet in turn
SettleAll(g, player, fleet) ==
    IF fleet = << >> THEN g
    ELSE SettleAll(GameSettleShip(g, player, Head(fleet).size,
                                  Head(fleet).orientation,
                                  Head(fleet).position).game,
                   player, Tail(fleet))

\* the rules as the event that ends ship crafting leaves them
BattleInit ==
    /\ settings = <<0, 0>>
    /\ \E fleet \in BattleFleets :
          game = SettleAll(SettleAll(initGame, "P1",
                     <<[size |-> 1, orientation |-> "HORIZONTAL",
                        position |-> <<0, 0>>]>>), "P2", fleet)
    /\ gameState = BattleState
    /\ inited = TRUE
    /\ cmds = <<Cmd("SETTLE SHIP")>>
    /\ controls = <<Cmd("DISABLE_ROTATION")>>
    /\ ret = NoCall
    /\ shown = Null
    /\ script = [n |-> 0 - 1, b |-> Null]
    /\ unmoved = FALSE
    /\ pinMade = FALSE
    /\ handlers = [NoHandlers EXCEPT !.select = TRUE, !.unselect = TRUE,
                                     !.move = TRUE]
    /\ sensor = SensorStart
    /\ presenter = PresenterStart

RulesSpecInit ==
    \/ Init
    \/ BattleInit

RulesSpec == RulesSpecInit /\ [][Next]_vars

(***************************************************************************)
(* GameSpec: BattleShipGame called directly, from a new game.              *)
(***************************************************************************)
GameInit ==
    /\ settings = <<0, 0>>
    /\ game = initGame
    /\ gameState = ShipCraftState(buildShipSizeSequence(settings), "P1")
    /\ inited = FALSE
    /\ cmds = << >>
    /\ controls = << >>
    /\ ret = NoCall
    /\ shown = Null
    /\ script = ScriptStart
    /\ unmoved = FALSE
    /\ pinMade = FALSE
    /\ handlers = NoHandlers
    /\ sensor = SensorStart
    /\ presenter = PresenterStart

rulesVars ==
    <<settings, gameState, inited, cmds, controls, shown, script, unmoved,
      pinMade, handlers, sensor, presenter>>

\* ships settled plus cells attacked so far
Ops(g) ==
    Len(g["P1"].ships) + Len(g["P2"].ships)
    + Cardinality({pc \in PLAYER \X Grid : g[pc[1]].shipBoard[pc[2]].attacked})

\* The driver makes a call while the bound allows it, and does not follow up
\* a call that left the game as it was: that game has been explored already.
CanCall ==
    /\ ret.op # "none" => ret.changed
    /\ Ops(game) < MaxOps

CallSettleShip ==
    /\ CanCall
    /\ \E p \in PLAYER, s \in ShipSize, o \in ORIENTATION, pos \in Positions :
          LET r == GameSettleShip(game, p, s, o, pos)
          IN  /\ game' = r.game
              /\ ret' = SettleCall(p, s, o, pos, r, game)
    /\ UNCHANGED rulesVars

CallAttack ==
    /\ CanCall
    /\ \E p \in PLAYER, pos \in Positions :
          LET r == GameAttack(game, p, pos)
          IN  /\ game' = r.game
              /\ ret' = AttackCall(p, pos, r, game)
    /\ UNCHANGED rulesVars

GameNext ==
    \/ CallSettleShip
    \/ CallAttack

GameSpec == GameInit /\ [][GameNext]_vars

(***************************************************************************)
(* PlayerSpec: the BattleShipPlayer P1 of a new game called directly.      *)
(***************************************************************************)
\* positions the ships are settled at: a corner, a cell with a neighbour on
\* every side, a position outside the grid
SettlePositions == {<<0, 0>>, <<1, 1>>, <<0 - 1, 0>>}

\* ship ids and parts handed to receiveDamage: those of the roster and of
\* the largest ship, and one step outside on either side
DamageIds == (0 - 1) .. MaxOps

DamageParts == (0 - 1) .. 3

RECURSIVE Hits(_)
\* parts damaged so far over a roster
Hits(ships) ==
    IF ships = << >> THEN 0 ELSE Head(ships).damage + Hits(Tail(ships))

\* as CanCall: a call that changed nothing is not followed up
PlayerCanCall == ret.op # "none" => ret.changed

CallPlayerSettleShip ==
    /\ PlayerCanCall
    /\ Len(game["P1"].ships) < MaxOps
    /\ \E s \in ShipSize, o \in ORIENTATION, pos \in SettlePositions :
          LET r == GameSettleShip(game, "P1", s, o, pos)
          IN  /\ game' = r.game
              /\ ret' = SettleCall("P1", s, o, pos, r, game)
    /\ UNCHANGED rulesVars

CallReceiveDamage ==
    /\ PlayerCanCall
    /\ Hits(game["P1"].ships) < MaxHits
    /\ \E shipId \in DamageIds, part \in DamageParts :
          LET d == PlayerReceiveDamage(game["P1"], shipId, part)
          IN  /\ game' = [game EXCEPT !["P1"] = d.player]
              /\ ret' = DamageCall("P1", shipId, part, d, game["P1"])
    /\ UNCHANGED rulesVars

PlayerNext ==
    \/ CallPlayerSettleShip
    \/ CallReceiveDamage

PlayerSpec == GameInit /\ [][PlayerNext]_vars

(***************************************************************************)
(* SensorSpec: the game played through the BattleShipSensor.  A mouse      *)
(* event reaches BattleShip.update only through a handler that is set;     *)
(* update runs Rules.apply at once and applies the controls before the     *)
(* next mouse event or timer is served.                                    *)
(***************************************************************************)
\* what BattleShip.init and BattleShip.update write
updateVars ==
    <<settings, game, gameState, inited, cmds, controls, ret, shown, script,
      unmoved, pinMade, handlers>>

\* positions locationInGrid and locationInBarrierGrid return: cells of the
\* grid only
SensorPositions == {to \in MovePositions : to \in Grid}

\* mouseDownEvent, button 0, the ray meeting the current ship or pin
MouseDownSelect ==
    /\ inited
    /\ handlers.select
    /\ sensor' = [sensor EXCEPT !.selecting = TRUE]
    /\ Apply([kind |-> "SELECT"])
    /\ UNCHANGED presenter

\* mouseDownEvent, button 2, the ray meeting the current ship or pin
MouseDownRotate ==
    /\ inited
    /\ handlers.rotate
    /\ Apply([kind |-> "ROTATE"])
    /\ UNCHANGED <<sensor, presenter>>

\* mouseUpEvent, button 0
MouseUp ==
    /\ inited
    /\ sensor.selecting
    /\ handlers.unselect
    /\ sensor' = [sensor EXCEPT !.selecting = FALSE]
    /\ Apply([kind |-> "UNSELECT"])
    /\ UNCHANGED presenter

\* moveEvent over a cell other than that of lastMoveEvent: the event is
\* kept, and the 100 ms timer is set if none is pending (lastMoveEvent is
\* defined exactly while a timer is pending)
MouseMove ==
    /\ inited
    /\ \E to \in SensorPositions, loc \in BSMoveLoc :
          /\ sensor.lastMoveEvent # [to |-> to, loc |-> loc]
          /\ sensor' = [sensor EXCEPT
                           !.lastMoveEvent = [to |-> to, loc |-> loc]]
    /\ UNCHANGED updateVars
    /\ UNCHANGED presenter

\* the timer's callback: moveHandler is read when the timer fires
MoveTimer ==
    /\ sensor.lastMoveEvent # Null
    /\ sensor' = [sensor EXCEPT !.lastMoveEvent = Null]
    /\ IF handlers.move
       THEN Apply([kind |-> "MOVE", to |-> sensor.lastMoveEvent.to,
                   loc |-> sensor.lastMoveEvent.loc])
       ELSE UNCHANGED updateVars
    /\ UNCHANGED presenter

SensorNext ==
    \/ RulesInit
    \/ MouseDownSelect
    \/ MouseDownRotate
    \/ MouseUp
    \/ MouseMove
    \/ MoveTimer

SensorSpec == RulesSpecInit /\ [][SensorNext]_vars

(***************************************************************************)
(* PresenterSpec: BattleShipPresenter.update called with batches of the    *)
(* shapes the rules return, the promise chain `execution` run by the       *)
(* JavaScript job queue and the camera animation by its timer.             *)
(* presenter.log[k] is the k-th callback chained, with the state of the    *)
(* promise its then() returned: "pending" (callback not yet run),          *)
(* "running" (run, the promise it returned not yet resolved), "done"       *)
(* (fulfilled), "failed" (the callback threw), "skipped" (rejected by the  *)
(* promise before it).                                                     *)
(***************************************************************************)
Batch(kinds) == [i \in 1 .. Len(kinds) |-> Cmd(kinds[i])]

\* the shapes of the command lists init and apply return
Batches ==
    {Batch(<< >>), Batch(<<"MAKE SHIP">>), Batch(<<"ERROR">>),
     Batch(<<"SELECT SHIP">>), Batch(<<"MOVE SHIP">>),
     Batch(<<"ROTATE SHIP">>), Batch(<<"SETTLE SHIP">>),
     Batch(<<"SETTLE SHIP", "MAKE SHIP">>),
     Batch(<<"SETTLE SHIP", "CHANGE PLAYER", "MAKE SHIP">>),
     Batch(<<"SETTLE SHIP", "CHANGE PLAYER", "ERROR">>),
     Batch(<<"SELECT PIN">>), Batch(<<"MOVE PIN">>),
     Batch(<<"SETTLE PIN", "MAKE PIN">>)}

RECURSIVE Chained(_)
\* the callbacks update chains for the commands cs: one for each command
\* but Error, which is only logged
Chained(cs) ==
    IF cs = << >> THEN << >>
    ELSE (IF Head(cs).kind = "ERROR" THEN << >>
          ELSE <<[kind |-> Head(cs).kind, status |-> "pending"]>>)
         \o Chained(Tail(cs))

AwaitedMutant(kind) == FALSE

\* the callback returns a promise, which the chain waits for
Awaited(kind) == kind = "CHANGE PLAYER"

\* the view operation reads lastItem of the ships, respectively the pins
OnShip(kind) ==
    kind \in {"SELECT SHIP", "SETTLE SHIP", "MOVE SHIP", "ROTATE SHIP"}

OnPin(kind) == kind \in {"SELECT PIN", "SETTLE PIN", "MOVE PIN"}

\* the view operation throws: it reads a field of lastItem of an empty list
Throws(pr, kind) ==
    \/ OnShip(kind) /\ ~pr.ships
    \/ OnPin(kind) /\ ~pr.pins

\* the presenter and its scene after the callback for log[k] has run
RunCallback(pr, k) ==
    LET kind == pr.log[k].kind
    IN  IF Throws(pr, kind) THEN [pr EXCEPT !.log[k].status = "failed"]
        ELSE [log |-> [pr.log EXCEPT ![k].status =
                          IF Awaited(kind) THEN "running" ELSE "done"],
              ships |-> pr.ships \/ kind = "MAKE SHIP",
              pins |-> pr.pins \/ kind = "MAKE PIN",
              steps |-> IF kind = "CHANGE PLAYER" THEN AnimSteps
                        ELSE pr.steps]

\* what PresenterSpec leaves alone
gameVars ==
    <<settings, game, gameState, inited, cmds, controls, ret, shown, script,
      unmoved, pinMade, handlers, sensor>>

\* BattleShipPresenter.update(cmds)
PresenterUpdate ==
    /\ \E cs \in Batches :
          /\ Len(presenter.log) + Len(Chained(cs)) <= MaxChain
          /\ presenter' = [presenter EXCEPT !.log = @ \o Chained(cs)]
    /\ UNCHANGED gameVars

\* a then() callback runs once the promise it was chained on is fulfilled
ThenFulfilled ==
    /\ \E k \in 1 .. Len(presenter.log) :
          /\ presenter.log[k].status = "pending"
          /\ k > 1 => presenter.log[k - 1].status = "done"
          /\ presenter' = RunCallback(presenter, k)
    /\ UNCHANGED gameVars

\* a then() on a rejected promise passes the rejection on without running
\* its callback
ThenRejected ==
    /\ \E k \in 2 .. Len(presenter.log) :
          /\ presenter.log[k].status = "pending"
          /\ presenter.log[k - 1].status \in {"failed", "skipped"}
          /\ presenter' = [presenter EXCEPT !.log[k].status = "skipped"]
    /\ UNCHANGED gameVars

\* BSAnimation.run on its 16 ms timer: one frame; after the last frame
\* cancel() calls finish, which resolves the promise changePlayer returned
AnimationRun ==
    /\ presenter.steps > 0
    /\ presenter' =
          [presenter EXCEPT
             !.steps = @ - 1,
             !.log = [k \in 1 .. Len(presenter.log) |->
                        IF /\ presenter.steps = 1
                           /\ presenter.log[k].status = "running"
                        THEN [presenter.log[k] EXCEPT !.status = "done"]
                        ELSE presenter.log[k]]]
    /\ UNCHANGED gameVars

PresenterNext ==
    \/ PresenterUpdate
    \/ ThenFulfilled
    \/ ThenRejected
    \/ AnimationRun

PresenterSpec == GameInit /\ [][PresenterNext]_vars

(***************************************************************************)
(* SettingsSpec: new BattleShipSettings() for differing values of the      *)
(* shipSizeByType field, followed, when the constructor returned, by       *)
(* new BattleShip(settings, ...).                                          *)
(***************************************************************************)
\* values of the field shipSizeByType the constructor is run over
SizeLists ==
    UNION {[1 .. n -> 1 .. MaxSize] : n \in 1 .. MaxTypes}

EvenSizeMutant(size) == size = 2

\* size%2 === 0
EvenSize(size) == size % 2 = 0

\* the constructor of BattleShipSettings: the error it throws, if any
NewBattleShipSettings(sizes) ==
    IF \E i \in 1 .. Len(sizes) : EvenSize(sizes[i]) THEN "EvenSize"
    ELSE "none"

RECURSIVE SizesOf(_, _, _)
\* buildShipSizeSequence over the fields sizes and counts
SizesOf(sizes, counts, shipType) ==
    IF shipType > Len(counts) THEN << >>
    ELSE Repeat(sizes[shipType], counts[shipType])
         \o SizesOf(sizes, counts, shipType + 1)

\* const gameSettings = new BattleShipSettings()
NewSettings ==
    /\ ret.op = "none"
    /\ \E sizes \in SizeLists :
          ret' = [op |-> "BattleShipSettings", sizes |-> sizes,
                  err |-> NewBattleShipSettings(sizes)]
    /\ UNCHANGED <<game>>
    /\ UNCHANGED rulesVars

\* new BattleShip(gameSettings, ...): reached when the statement before it
\* did not throw; builds the Game and the Rules from the settings
NewBattleShip ==
    /\ ret.op = "BattleShipSettings"
    /\ ret.err = "none"
    /\ game' = initGame
    /\ gameState' =
          ShipCraftState(SizesOf(ret.sizes, Repeat(1, Len(ret.sizes)), 1),
                         "P1")
    /\ ret' = [op |-> "BattleShip", sizes |-> ret.sizes, err |-> "none"]
    /\ UNCHANGED <<settings, inited, cmds, controls, shown, script, unmoved,
                   pinMade, handlers, sensor, presenter>>

SettingsNext ==
    \/ NewSettings
    \/ NewBattleShip

SettingsSpec == GameInit /\ [][SettingsNext]_vars

(***************************************************************************)
(* What the claims speak of, stated apart from the operators above.        *)
(***************************************************************************)
\* the cells of a ship of this size and orientation centred on the anchor
ClaimCells(size, orientation, position) ==
    LET h == (size - 1) \div 2
    IN  IF orientation = "HORIZONTAL"
        THEN {<<position[1], position[2] + d>> : d \in (0 - h) .. h}
        ELSE {<<position[1] + d, position[2]>> : d \in (0 - h) .. h}

\* the index along the ship, 0 .. size-1, of cell c
ClaimIndex(c, size, orientation, position) ==
    LET h == (size - 1) \div 2
    IN  IF orientation = "HORIZONTAL" THEN c[2] - (position[2] - h)
        ELSE c[1] - (position[1] - h)

RetCells(r) == ClaimCells(r.size, r.orientation, r.position)

OneError(cs) == Len(cs) = 1 /\ cs[1].kind = "ERROR"

\* C1 (GameSpec): a settle whose run lies inside the grid over WATER cells
\* succeeds; each cell of the run becomes a SHIP cell with the new ship's id
\* and its index along the ship, and every other cell is unchanged.
C1_SettleMarksCells ==
    [][(/\ ret'.op = "settleShip"
        /\ RetCells(ret') \subseteq Grid
        /\ \A c \in RetCells(ret') :
              game[ret'.player].shipBoard[c].cellKind = "WATER")
       => LET p == ret'.player
              ship == game'[p].ships[Len(game'[p].ships)]
          IN  /\ ret'.err = "none"
              /\ Len(game'[p].ships) = Len(game[p].ships) + 1
              /\ \A c \in Grid :
                    IF c \in RetCells(ret')
                    THEN /\ game'[p].shipBoard[c].cellKind = "SHIP"
                         /\ game'[p].shipBoard[c].shipId = ship.id
                         /\ game'[p].shipBoard[c].shipPart =
                               ClaimIndex(c, ret'.size, ret'.orientation,
                                          ret'.position)
                    ELSE game'[p].shipBoard[c] = game[p].shipBoard[c]]_vars

\* C2 (GameSpec): a settle whose anchor or run leaves the grid fails with an
\* out-of-bounds failure and changes no cell.
C2_OutOfBoundsRejected ==
    [][(/\ ret'.op = "settleShip"
        /\ ~(RetCells(ret') \subseteq Grid))
       => /\ ret'.err \in {"PositionOutOfBounds", "SizeOutOfBounds"}
          /\ game' = game]_vars

\* C3 (GameSpec): a settle whose run lies inside the grid and includes a cell
\* that is already a SHIP cell fails with an overlap failure and changes no
\* cell.
C3_OverlapRejected ==
    [][(/\ ret'.op = "settleShip"
        /\ RetCells(ret') \subseteq Grid
        /\ \E c \in RetCells(ret') :
              game[ret'.player].shipBoard[c].cellKind = "SHIP")
       => /\ ret'.err = "Overlap"
          /\ game' = game]_vars

C3_Witness ==
    /\ ret.op = "settleShip"
    /\ ret.err = "Overlap"
    /\ RetCells(ret) \subseteq Grid
    /\ \E c \in RetCells(ret) : game[ret.player].shipBoard[c].cellKind = "SHIP"

C5_SettlesShownSize ==
    [][ret'.op = "settleShip" => shown = <<ret'.size>>]_vars

\* C6 (Spec): with one ship of size 1 per player, the micro-game SELECT,
\* MOVE(ship grid, a), UNSELECT, SELECT, MOVE(ship grid, b), UNSELECT, SELECT,
\* MOVE(pin grid, b), UNSELECT ends in GameOver(P1) with P2's live-ship count
\* at 0, and its last UNSELECT emits no SettlePin, ChangePlayer or MakePin.
C6_MicroGameEndsInGameOver ==
    (settings = <<1, 0>> /\ script.n = Len(MicroKinds))
    => /\ gameState.kind = "GAME OVER"
       /\ gameState.player = "P1"
       /\ game["P2"].shipCount = 0
       /\ ~HasKind(cmds, "SETTLE PIN")
       /\ ~HasKind(cmds, "CHANGE PLAYER")
       /\ ~HasKind(cmds, "MAKE PIN")

\* C7 (Spec): when an UNSELECT in Battle produces an Error command because
\* the attack failed, the game (cells, attacked flags, damage records, live-
\* ship counters) and the rule state are as before the event.
C7_AttackFailureChangesNothing ==
    [][(/\ gameState.kind = "BATTLE"
        /\ ret'.op = "attack"
        /\ ret'.err # "none")
       => /\ OneError(cmds')
          /\ game' = game
          /\ gameState' = gameState]_vars

\* C8 (Spec): after a successful attack that does not end the match the
\* active player becomes the other player.
C8_AttackersAlternate ==
    [][(/\ gameState.kind = "BATTLE"
        /\ ret'.op = "attack"
        /\ ret'.err = "none"
        /\ ~ret'.value)
       => /\ gameState'.kind = "BATTLE"
          /\ gameState'.player = Other(gameState.player)]_vars

DamagedParts(ship) == {i \in DOMAIN ship.damaged : ship.damaged[i]}

\* C11 (PlayerSpec): receiveDamage on a part, not yet damaged, of a roster
\* ship of size N succeeds and marks that part; it returns true exactly when
\* the part is the Nth one damaged, the damage counter being the number of
\* parts damaged; the live-ship counter goes down by one on the call that
\* returns true and is unchanged by every other call.
C11_NthDamageDestroys ==
    [][ret'.op = "receiveDamage"
       => LET pl == game[ret'.player]
              pl2 == game'[ret'.player]
              k == ret'.shipId + 1
          IN  /\ pl2.shipCount =
                    pl.shipCount - (IF ret'.value THEN 1 ELSE 0)
              /\ ret'.value => ret'.err = "none"
              /\ (/\ k \in 1 .. Len(pl.ships)
                  /\ pl.ships[k].size \in ShipSize
                  /\ ret'.part \in 0 .. pl.ships[k].size - 1
                  /\ ~pl.ships[k].damaged[ret'.part])
                 => /\ ret'.err = "none"
                    /\ pl.ships[k].damage = Cardinality(DamagedParts(pl.ships[k]))
                    /\ DamagedParts(pl2.ships[k]) =
                          DamagedParts(pl.ships[k]) \cup {ret'.part}
                    /\ ret'.value <=>
                          Cardinality(DamagedParts(pl2.ships[k])) = pl.ships[k].size
                    /\ \A j \in 1 .. Len(pl.ships) :
                          j # k => pl2.ships[j] = pl.ships[j]]_vars

C11_Witness ==
    /\ ret.op = "receiveDamage"
    /\ ret.err = "none"
    /\ ret.value
    /\ LET pl == game[ret.player]
       IN  /\ pl.ships[ret.shipId + 1].size = 3
           /\ Cardinality(DamagedParts(pl.ships[ret.shipId + 1])) = 3
           /\ pl.shipCount = Len(pl.ships) - 1

\* the kinds of BattleShipCommand
CommandKinds ==
    {"CHANGE PLAYER", "MAKE PIN", "MAKE SHIP", "MOVE PIN", "MOVE SHIP",
     "ROTATE SHIP", "SELECT PIN", "SELECT SHIP", "SETTLE PIN", "SETTLE SHIP",
     "ERROR"}

\* C12 (Spec): every apply returns a list of commands, and when the
\* Game.settleShip or Game.attack it called failed, that list is exactly one
\* Error command, reporting that failure.
C12_FailuresBecomeOneError ==
    [][/\ \A i \in 1 .. Len(cmds') : cmds'[i].kind \in CommandKinds
       /\ (ret'.op # "none" /\ ret'.err # "none")
             => (OneError(cmds') /\ cmds'[1].log = ret'.err)]_vars

C12_Witness ==
    /\ ret.op = "settleShip"
    /\ ret.err = "TypeError"
    /\ OneError(cmds)

\* the order ShipCrafting(P1) < ShipCrafting(P2) < Battle < GameOver
Phase(st) ==
    IF st.kind = "SHIP CRAFTING" THEN (IF st.player = "P1" THEN 0 ELSE 1)
    ELSE IF st.kind = "BATTLE" THEN 2
    ELSE 3

\* C13 (Spec): no init and no event takes the rule state to an earlier phase
\* of the order ShipCrafting(P1) < ShipCrafting(P2) < Battle < GameOver.
C13_PhaseNeverBackwards ==
    [][Phase(gameState') >= Phase(gameState)]_vars

C13_Witness ==
    /\ gameState.kind = "BATTLE"
    /\ ret.op = "attack"
    /\ Len(game["P1"].ships) > 0
    /\ Len(game["P2"].ships) > 0

\* C14 (Spec): ROTATE in ShipCrafting with selected=true flips the
\* orientation, changes nothing else and returns exactly [RotateShip]; in
\* every other state it returns no command and changes neither the rule
\* state nor the game.
C14_RotateOnlyWhenSelected ==
    [][ApplyRotate
       => /\ game' = game
          /\ IF gameState.kind = "SHIP CRAFTING" /\ gameState.selected
             THEN /\ cmds' = <<Cmd("ROTATE SHIP")>>
                  /\ gameState'.orientation # gameState.orientation
                  /\ gameState'.orientation \in ORIENTATION
                  /\ gameState' =
                        [gameState EXCEPT !.orientation = gameState'.orientation]
             ELSE /\ cmds' = << >>
                  /\ gameState' = gameState]_vars

C14_Witness ==
    /\ cmds = <<Cmd("ROTATE SHIP")>>
    /\ gameState.kind = "SHIP CRAFTING"
    /\ gameState.selected
    /\ gameState.orientation = "VERTICAL"

\* C15 (Spec): init in the initial ShipCrafting(P1) state returns exactly
\* one command, MakeShip(first size of the sequence) or Error when the
\* sequence is empty, and the controls EnableSelection, EnableUnselection,
\* EnableRotation, EnableMove.
C15_InitMakesFirstShip ==
    [][(~inited /\ inited')
       => LET seq == gameState.shipSizeSequence
          IN  /\ gameState.kind = "SHIP CRAFTING"
              /\ gameState.player = "P1"
              /\ Len(cmds') = 1
              /\ IF seq = << >> THEN cmds'[1].kind = "ERROR"
                 ELSE cmds'[1] = [kind |-> "MAKE SHIP", size |-> seq[1]]
              /\ controls' = <<[kind |-> "ENABLE_SELECTION"],
                               [kind |-> "ENABLE_UNSELECTION"],
                               [kind |-> "ENABLE_ROTATION"],
                               [kind |-> "ENABLE_MOVE"]>>]_vars

C15_Witness ==
    /\ inited
    /\ script = ScriptStart
    /\ Len(cmds) = 1
    /\ cmds[1].kind = "MAKE SHIP"
    /\ Len(controls) = 4

\* C16 (GameSpec): attack(attacker, target) with target in the grid leaves
\* cell `target` of the defender's ship-board attacked, changes no other
\* cell of that board and nothing of the attacker; settleShip(player, ...)
\* changes nothing of the other player.
C16_CallsTouchOneSide ==
    [][/\ (ret'.op = "attack")
          => /\ game'[ret'.player] = game[ret'.player]
             /\ ret'.position \in Grid
                   => LET d == Other(ret'.player)
                          c == ret'.position
                      IN  /\ ret'.err # "AttackOutOfBounds"
                          /\ game'[d].shipBoard =
                                [game[d].shipBoard EXCEPT ![c].attacked = TRUE]
       /\ (ret'.op = "settleShip")
          => game'[Other(ret'.player)] = game[Other(ret'.player)]]_vars

C16_Witness ==
    /\ ret.op = "attack"
    /\ ret.err = "none"
    /\ ret.position \in Grid
    /\ game[Other(ret.player)].shipBoard[ret.position].attacked
    /\ game[ret.player].shipBoard[ret.position].cellKind = "SHIP"
    /\ ~game[ret.player].shipBoard[ret.position].attacked

C18_LastShipOfP1ChangesPlayer ==
    [][(/\ gameState.kind = "SHIP CRAFTING"
        /\ gameState.player = "P1"
        /\ ret'.op = "settleShip"
        /\ ret'.err = "none"
        /\ Len(game'["P1"].ships) >= Len(gameState.shipSizeSequence))
       => LET seq == gameState.shipSizeSequence
          IN  /\ Len(cmds') = 3
              /\ cmds'[1] = [kind |-> "SETTLE SHIP"]
              /\ cmds'[2] = [kind |-> "CHANGE PLAYER"]
              /\ IF seq = << >> THEN cmds'[3].kind = "ERROR"
                 ELSE cmds'[3] = [kind |-> "MAKE SHIP", size |-> seq[1]]
              /\ gameState' =
                    [kind |-> "SHIP CRAFTING", player |-> "P2",
                     selected |-> FALSE, shipSizeSequence |-> seq,
                     shipSizeIterator |-> IF seq = << >> THEN 0 ELSE 1,
                     orientation |-> "HORIZONTAL", pos |-> Null]]_vars

C18_Witness ==
    /\ gameState.kind = "SHIP CRAFTING"
    /\ gameState.player = "P2"
    /\ ret.op = "settleShip"
    /\ ret.player = "P1"
    /\ ret.err = "none"
    /\ ret.orientation = "VERTICAL"
    /\ Len(cmds) = 3
    /\ cmds[3].kind = "MAKE SHIP"

\* C19 (Spec): in ShipCrafting(P2), the committing UNSELECT whose settle
\* completes P2's roster leaves Battle(P1, selected=false, pos=null) and
\* returns SettleShip and no other command.
C19_LastShipOfP2StartsBattle ==
    [][(/\ gameState.kind = "SHIP CRAFTING"
        /\ gameState.player = "P2"
        /\ ret'.op = "settleShip"
        /\ ret'.err = "none"
        /\ Len(game'["P2"].ships) >= Len(gameState.shipSizeSequence))
       => /\ cmds' = <<[kind |-> "SETTLE SHIP"]>>
          /\ gameState' = [kind |-> "BATTLE", player |-> "P1",
                           selected |-> FALSE, pos |-> Null]]_vars

C19_Witness ==
    /\ gameState.kind = "BATTLE"
    /\ ret.op = "settleShip"
    /\ ret.player = "P2"
    /\ ret.err = "none"
    /\ cmds = <<[kind |-> "SETTLE SHIP"]>>
    /\ Len(game["P2"].ships) >= 1

\* C20 (Spec): in Battle, a committing UNSELECT whose attack succeeds and
\* does not end the match returns exactly [SettlePin, ChangePlayer, MakePin]
\* and leaves the state in Battle with selected=false and pos=null.
C20_AttackThenNextPin ==
    [][(/\ gameState.kind = "BATTLE"
        /\ ret'.op = "attack"
        /\ ret'.err = "none"
        /\ ~ret'.value)
       => /\ gameState.selected
          /\ gameState.pos = ret'.position
          /\ cmds' = <<[kind |-> "SETTLE PIN"], [kind |-> "CHANGE PLAYER"],
                       [kind |-> "MAKE PIN"]>>
          /\ gameState'.kind = "BATTLE"
          /\ gameState'.selected = FALSE
          /\ gameState'.pos = Null]_vars

C20_Witness ==
    /\ gameState.kind = "BATTLE"
    /\ ret.op = "attack"
    /\ ret.err = "none"
    /\ ~ret.value
    /\ Len(cmds) = 3
    /\ cmds[3].kind = "MAKE PIN"
    /\ gameState.pos = Null

\* C21 (RulesSpec): in Battle, a committing UNSELECT whose attack takes the
\* defender's live-ship counter to 0 leaves GameOver with the attacker as
\* winning player and returns no command.
C21_WinningAttackEndsGame ==
    [][(/\ gameState.kind = "BATTLE"
        /\ ret'.op = "attack"
        /\ ret'.err = "none"
        /\ game[Other(ret'.player)].shipCount > 0
        /\ game'[Other(ret'.player)].shipCount = 0)
       => /\ gameState.selected
          /\ ret'.player = gameState.player
          /\ gameState' = [kind |-> "GAME OVER", player |-> ret'.player]
          /\ cmds' = << >>]_vars

C21_Witness ==
    /\ gameState.kind = "GAME OVER"
    /\ gameState.player = "P1"
    /\ ret.op = "attack"
    /\ ret.value
    /\ game["P2"].shipCount = 0
    /\ cmds = << >>

\* C22 (RulesSpec): apply returns the controls [DisableRotation] exactly for
\* the event that takes ShipCrafting to Battle, [DisableSelection,
\* DisableUnselection, DisableMove] exactly for the event that takes Battle
\* to GameOver, and no control for every other event.
C22_ControlsFollowPhaseChange ==
    [][inited
       => controls' =
            IF gameState.kind = "SHIP CRAFTING" /\ gameState'.kind = "BATTLE"
            THEN <<[kind |-> "DISABLE_ROTATION"]>>
            ELSE IF gameState.kind = "BATTLE" /\ gameState'.kind = "GAME OVER"
            THEN <<[kind |-> "DISABLE_SELECTION"],
                   [kind |-> "DISABLE_UNSELECTION"],
                   [kind |-> "DISABLE_MOVE"]>>
            ELSE << >>]_vars

C22_Witness ==
    /\ gameState.kind = "GAME OVER"
    /\ ret.op = "attack"
    /\ Len(controls) = 3
    /\ controls[1].kind = "DISABLE_SELECTION"

\* C23 (RulesSpec): SELECT in ShipCrafting or Battle with selected=false
\* sets selected=true, changes no other field and returns exactly
\* [SelectShip], respectively [SelectPin]; when selected already, or in
\* GameOver, it returns no command and changes nothing.  It never changes
\* the game.
C23_SelectOnlyWhenUnselected ==
    [][ApplySelect
       => /\ game' = game
          /\ IF gameState.kind # "GAME OVER" /\ ~gameState.selected
             THEN /\ cmds' = <<[kind |-> IF gameState.kind = "BATTLE"
                                         THEN "SELECT PIN"
                                         ELSE "SELECT SHIP"]>>
                  /\ gameState' = [gameState EXCEPT !.selected = TRUE]
             ELSE /\ cmds' = << >>
                  /\ gameState' = gameState]_vars

C23_Witness ==
    /\ gameState.kind = "BATTLE"
    /\ gameState.selected
    /\ cmds = <<[kind |-> "SELECT PIN"]>>

\* C24 (RulesSpec): MOVE(to, location) sets pos=to, changes no other field
\* and returns exactly [MoveShip(to)] in ShipCrafting, selected, on the ship
\* grid, or exactly [MovePin(to)] in Battle, selected, on the pin grid; in
\* every other case it returns no command and changes nothing.  It never
\* changes the game.
C24_MoveOnlyOnMatchingGrid ==
    [][\A to \in MovePositions, loc \in BSMoveLoc :
          (inited /\ Apply([kind |-> "MOVE", to |-> to, loc |-> loc]))
          => /\ game' = game
             /\ IF /\ gameState.kind # "GAME OVER"
                   /\ gameState.selected
                   /\ loc = (IF gameState.kind = "BATTLE"
                             THEN "PIN_GRID" ELSE "SHIP_GRID")
                THEN /\ cmds' = <<[kind |-> IF gameState.kind = "BATTLE"
                                            THEN "MOVE PIN" ELSE "MOVE SHIP",
                                   to |-> to]>>
                     /\ gameState' = [gameState EXCEPT !.pos = to]
                ELSE /\ cmds' = << >>
                     /\ gameState' = gameState]_vars

C24_Witness ==
    /\ gameState.kind = "BATTLE"
    /\ gameState.selected
    /\ gameState.pos = <<1, 1>>
    /\ cmds = <<[kind |-> "MOVE PIN", to |-> <<1, 1>>]>>

\* C25 (RulesSpec): UNSELECT while selected with pos=null returns exactly
\* [SettleShip] in ShipCrafting or [SettlePin] in Battle, sets
\* selected=false and commits nothing: no call is made on the game, and the
\* game, the cursor, the orientation, the player and the phase are as before.
C25_UnselectWithoutPosLaysDown ==
    [][(/\ gameState.kind \in {"SHIP CRAFTING", "BATTLE"}
        /\ gameState.selected
        /\ gameState.pos = Null
        /\ ApplyUnselect)
       => /\ cmds' = <<[kind |-> IF gameState.kind = "BATTLE"
                                 THEN "SETTLE PIN" ELSE "SETTLE SHIP"]>>
          /\ gameState' = [gameState EXCEPT !.selected = FALSE]
          /\ game' = game
          /\ ret' = NoCall]_vars

C25_Witness ==
    /\ gameState.kind = "BATTLE"
    /\ ~gameState.selected
    /\ gameState.pos = Null
    /\ ret = NoCall
    /\ cmds = <<[kind |-> "SETTLE PIN"]>>

\* the ships and the cells of a game without attacked flags, damage
\* records and live-ship counters
Layout(g) ==
    [p \in PLAYER |->
        [ships |-> [i \in 1 .. Len(g[p].ships) |->
                      <<g[p].ships[i].id, g[p].ships[i].size,
                        g[p].ships[i].orientation, g[p].ships[i].position>>],
         cells |-> [c \in Grid |->
                      IF g[p].shipBoard[c].cellKind = "SHIP"
                      THEN <<"SHIP", g[p].shipBoard[c].shipId,
                             g[p].shipBoard[c].shipPart>>
                      ELSE <<g[p].shipBoard[c].cellKind>>]]]

\* C26 (RulesSpec): in Battle and in GameOver no event changes the length of
\* a roster, the id, size, position or orientation of a ship, or the kind,
\* ship id or part of a board cell.
C26_LayoutFrozenAfterCrafting ==
    [][gameState.kind \in {"BATTLE", "GAME OVER"}
       => Layout(game') = Layout(game)]_vars

C26_Witness ==
    /\ gameState.kind = "BATTLE"
    /\ ret.op = "attack"
    /\ ret.err = "none"
    /\ game["P2"].shipBoard[ret.position].cellKind = "SHIP"
    /\ game["P2"].shipBoard[ret.position].attacked
    /\ game["P2"].ships[1].damage = 1

\* C27 (PlayerSpec): a settleShip the ship-board rejects reports the failure
\* and leaves the roster, the live-ship counter and the board as they were;
\* a settleShip that succeeds appends exactly one ship, the one asked for,
\* and adds one to the live-ship counter.
C27_SettleIsAtomic ==
    [][ret'.op = "settleShip"
       => LET pl == game[ret'.player]
              pl2 == game'[ret'.player]
              fits == /\ RetCells(ret') \subseteq Grid
                      /\ \A c \in RetCells(ret') :
                            pl.shipBoard[c].cellKind = "WATER"
          IN  /\ fits <=> ret'.err = "none"
              /\ IF ret'.err # "none"
                 THEN game' = game
                 ELSE /\ Len(pl2.ships) = Len(pl.ships) + 1
                      /\ SubSeq(pl2.ships, 1, Len(pl.ships)) = pl.ships
                      /\ pl2.ships[Len(pl2.ships)].size = ret'.size
                      /\ pl2.ships[Len(pl2.ships)].position = ret'.position
                      /\ pl2.shipCount = pl.shipCount + 1]_vars

C27_Witness ==
    /\ ret.op = "settleShip"
    /\ ret.err = "Overlap"
    /\ Len(game[ret.player].ships) = 1
    /\ game[ret.player].shipCount = 1

\* C28 (PlayerSpec): the ship at roster index i has id i, so ids are unique
\* within the player.
C28_IdIsRosterIndex ==
    \A i \in 1 .. Len(game["P1"].ships) : game["P1"].ships[i].id = i - 1

\* C29 (PlayerSpec): receiveDamage fails with an invalid-ship-id failure
\* when shipId is outside the roster, with an invalid-part failure when part
\* is outside [0, size), with an already-damaged failure when the part is
\* marked already, and in no other case; a failed call changes no damage
\* flag, damage counter or live-ship counter.
C29_DamageFailures ==
    [][ret'.op = "receiveDamage"
       => LET pl == game[ret'.player]
              k == ret'.shipId + 1
          IN  /\ ret'.err =
                    IF k \notin 1 .. Len(pl.ships) THEN "InvalidShipId"
                    ELSE IF ret'.part \notin 0 .. pl.ships[k].size - 1
                    THEN "InvalidPart"
                    ELSE IF pl.ships[k].damaged[ret'.part]
                    THEN "AlreadyDamaged"
                    ELSE "none"
              /\ ret'.err # "none" => game' = game]_vars

C29_Witness ==
    /\ ret.op = "receiveDamage"
    /\ ret.err = "InvalidPart"
    /\ ret.shipId + 1 \in 1 .. Len(game[ret.player].ships)
    /\ ret.part = game[ret.player].ships[ret.shipId + 1].size
    /\ game[ret.player].ships[ret.shipId + 1].damage > 0

\* a ship whose damage counter is below its size; no number is below an
\* undefined size
Live(ship) == ship.size # Undefined /\ ship.damage < ship.size

\* C30 (Spec): each ship's damage counter is the number of its parts marked
\* damaged and lies in [0, size], and each player's live-ship counter is the
\* number of roster ships whose damage counter is below their size.
C30_CountersMatchRoster ==
    \A p \in PLAYER :
       /\ \A i \in 1 .. Len(game[p].ships) :
             LET ship == game[p].ships[i]
             IN  /\ ship.damage = Cardinality(DamagedParts(ship))
                 /\ ship.size # Undefined
                 /\ 0 <= ship.damage
                 /\ ship.damage <= ship.size
       /\ game[p].shipCount =
             Cardinality({i \in 1 .. Len(game[p].ships) :
                             Live(game[p].ships[i])})

\* the cells of p's ship-board that hold a part of a ship
ShipCells(p) == {c \in Grid : game[p].shipBoard[c].cellKind = "SHIP"}

\* the cells of p's ship-board that carry the id of this ship
Occupied(p, ship) ==
    {c \in ShipCells(p) : game[p].shipBoard[c].shipId = ship.id}

\* C33 (Spec): in every reachable state each roster ship is destroyed
\* (damage = size) exactly when every cell it occupies has been attacked,
\* and when a player's ship cells have all been attacked that player's
\* live-ship counter is 0 and the state is GameOver.
C33_DestroyedIffAllCellsAttacked ==
    \A p \in PLAYER :
       /\ \A i \in 1 .. Len(game[p].ships) :
             LET ship == game[p].ships[i]
             IN  (ship.damage = ship.size)
                 <=> (\A c \in Occupied(p, ship) :
                         game[p].shipBoard[c].attacked)
       /\ (/\ ShipCells(p) # {}
           /\ \A c \in ShipCells(p) : game[p].shipBoard[c].attacked)
          => /\ game[p].shipCount = 0
             /\ gameState.kind = "GAME OVER"

\* C34 (Spec): an attack made by the rules on a cell of the grid that has
\* not been attacked does not fail.
C34_FreshAttackSucceeds ==
    [][(/\ ret'.op = "attack"
        /\ ret'.position \in Grid
        /\ ~game[Other(ret'.player)].shipBoard[ret'.position].attacked)
       => ret'.err = "none"]_vars

RECURSIVE SizeSum(_)
\* the sum of the sizes of a roster
SizeSum(ships) ==
    IF ships = << >> THEN 0 ELSE Head(ships).size + SizeSum(Tail(ships))

\* C35 (Spec): in every reachable state a player's ship-board has as many
\* SHIP cells as the sizes of the roster add up to, every SHIP cell carries
\* the id of exactly one roster ship, and every roster ship occupies at
\* least one cell.
C35_CellsMatchRoster ==
    \A p \in PLAYER :
       /\ \A i \in 1 .. Len(game[p].ships) :
             /\ game[p].ships[i].size # Undefined
             /\ Occupied(p, game[p].ships[i]) # {}
       /\ Cardinality(ShipCells(p)) = SizeSum(game[p].ships)
       /\ \A c \in ShipCells(p) :
             Cardinality({i \in 1 .. Len(game[p].ships) :
                             game[p].ships[i].id = game[p].shipBoard[c].shipId})
             = 1

\* C36 (RulesSpec): from GameOver every event returns no command and no
\* control and leaves the rule state, winner included, and the game as they
\* were.
C36_GameOverAbsorbs ==
    [][gameState.kind = "GAME OVER"
       => /\ cmds' = << >>
          /\ controls' = << >>
          /\ gameState' = gameState
          /\ game' = game]_vars

C36_Witness ==
    /\ gameState.kind = "GAME OVER"
    /\ controls = << >>
    /\ cmds = << >>
    /\ ret = NoCall

C38_NewShipHasNoPosition ==
    [][(/\ gameState.kind = "SHIP CRAFTING"
        /\ gameState.selected
        /\ unmoved
        /\ ApplyUnselect)
       => /\ cmds' = <<Cmd("SETTLE SHIP")>>
          /\ ret' = NoCall
          /\ game' = game]_vars

\* C39 (Spec): a batch carries a SelectPin, MovePin or SettlePin only when a
\* MakePin has been emitted in an earlier batch.
C39_PinMadeBeforeUse ==
    [][(\/ HasKind(cmds', "SELECT PIN")
        \/ HasKind(cmds', "MOVE PIN")
        \/ HasKind(cmds', "SETTLE PIN"))
       => pinMade]_vars

\* C32 (SettingsSpec): constructing the settings throws exactly when some
\* entry of shipSizeByType is even, and the Rules and the Game are only ever
\* built over a size sequence without an even size.
C32_EvenSizesRejected ==
    /\ [][ret'.op = "BattleShipSettings"
          => (ret'.err # "none"
              <=> \E i \in DOMAIN ret'.sizes :
                     ret'.sizes[i] % 2 = 0)]_vars
    /\ [](ret.op = "BattleShip"
          => /\ ret.err = "none"
             /\ \A i \in DOMAIN gameState.shipSizeSequence :
                   gameState.shipSizeSequence[i] % 2 = 1)

C32_Witness ==
    /\ ret.op = "BattleShipSettings"
    /\ ret.err = "EvenSize"
    /\ Len(ret.sizes) = 3
    /\ ret.sizes[1] = 1
    /\ ret.sizes[3] = 4

\* C40 (SensorSpec): once the state is Battle the sensor delivers no ROTATE,
\* and once it is GameOver it delivers no event at all: a MOVE timer that
\* was pending when the controls were applied fires without calling apply.
C40_DisabledEventsNotDelivered ==
    [][/\ gameState.kind \in {"BATTLE", "GAME OVER"} => ~MouseDownRotate
       /\ gameState.kind = "GAME OVER"
          => /\ ~MouseDownSelect
             /\ ~MouseUp
             /\ UNCHANGED updateVars]_vars

C40_Witness ==
    /\ gameState.kind = "GAME OVER"
    /\ handlers = NoHandlers
    /\ controls # << >>
    /\ sensor.lastMoveEvent # Null

\* the callback chained k-th starts in this step
Starts(k) ==
    /\ k \in 1 .. Len(presenter.log)
    /\ presenter.log[k].status = "pending"
    /\ presenter'.log[k].status \in {"running", "done", "failed"}

====
